---- MODULE Spec2Model ----
(***************************************************************************)
(* A model of src/pki_crypto.c (libssh PKI on OpenSSL): key duplication,   *)
(* private key decoding, public key building, public key blob encoding    *)
(* and signing, over an explicit heap of key handles, DSA/RSA structures   *)
(* and bignums.                                                            *)
(***************************************************************************)
EXTENDS Integers, Sequences, FiniteSets, TLC

\* ------------------------------------------------------------------ bounds
MaxKeys   == 2      \* key handles the caller holds at once

\* --------------------------------------------------------------- constants
NULL == 0

KeyTypes == {"UNKNOWN", "DSS", "RSA", "RSA1", "ECDSA"}
DsaFields == {"p", "q", "g", "pub_key", "priv_key"}
RsaFields == {"n", "e", "d", "p", "q", "dmp1", "dmq1", "iqmp"}
Fields == DsaFields \cup RsaFields
DsaSecret == {"priv_key"}
RsaSecret == {"d", "p", "q", "dmp1", "dmq1", "iqmp"}

NoKey == [type |-> "NONE", type_c |-> "", flags |-> {}, dsa |-> NULL, rsa |-> NULL]
NoFields == [x \in Fields |-> NULL]
UnallocCell == [s |-> "unalloc", f |-> NoFields]

VARIABLES keys,   \* slot -> key handle (NoKey when the slot holds none)
          st,     \* address -> DSA/RSA structure cell
          bn,     \* address -> bignum value, -1 when not allocated
          last,   \* record of the most recent call and its outcome
          ub      \* TRUE once a call has released freed memory again
vars == <<keys, st, bn, last, ub>>

Slots == 1..MaxKeys

\* the heap has one DSA / RSA structure cell for each handle, and one bignum
\* cell for each field of each structure cell
MaxStruct == MaxKeys
FieldOrder == <<"p", "q", "g", "pub_key", "priv_key", "n", "e", "d", "dmp1", "dmq1", "iqmp">>
FieldIndex(f) == CHOOSE i \in 1..Len(FieldOrder) : FieldOrder[i] = f
MaxBN == MaxStruct * Len(FieldOrder)

\* -------------------------------------------------------------- allocator
MinOf(S) == CHOOSE x \in S : \A y \in S : x <= y
\* the cell the allocator hands out for field f of the structure at a
BnCell(a, f) == (a - 1) * Len(FieldOrder) + FieldIndex(f)
\* the cell the allocator hands out for the structure of the handle in slot k
StructCell(k) == k
FreeSlots(ks) == {k \in Slots : ks[k] = NoKey}

\* ssh_key_type_to_char
TypeC(t) == CASE t = "DSS" -> "ssh-dss"
              [] t = "RSA" -> "ssh-rsa"
              [] t = "RSA1" -> "ssh-rsa1"
              [] t = "ECDSA" -> "ssh-ecdsa"
              [] OTHER -> ""

\* the structure a key's operations dereference (key->dsa or key->rsa)
Payload(k) == CASE k.type = "DSS" -> k.dsa
                [] k.type \in {"RSA", "RSA1"} -> k.rsa
                [] OTHER -> NULL
FamilyFields(t) == CASE t = "DSS" -> DsaFields
                     [] t \in {"RSA", "RSA1"} -> RsaFields
                     [] OTHER -> {}
SecretFields(t) == CASE t = "DSS" -> DsaSecret
                     [] t \in {"RSA", "RSA1"} -> RsaSecret
                     [] OTHER -> {}

\* a handle the operations may be called with: its payload is a live structure
UsableKey(ks, s, k) ==
    /\ ks[k] # NoKey
    /\ \/ ks[k].type \in {"UNKNOWN", "ECDSA"}
       \/ Payload(ks[k]) # NULL /\ s[Payload(ks[k])].s = "live"

\* DSA_free / RSA_free: release every bignum the structure holds, then the
\* structure itself
StructFreeBN(b, s, a) ==
    IF a = NULL \/ s[a].s # "live" THEN b
    ELSE [x \in 1..MaxBN |-> IF \E fl \in Fields : s[a].f[fl] = x THEN -1 ELSE b[x]]
StructFreeSt(s, a) ==
    IF a = NULL \/ s[a].s # "live" THEN s
    ELSE [s EXCEPT ![a] = [s |-> "freed", f |-> NoFields]]
\* freeing a structure that is already freed
IsDoubleFree(s, a) == a # NULL /\ s[a].s # "live"

\* the allocator reclaims freed cells; a freed cell that a handle still
\* points to is kept marked so that a later use of the pointer is seen
Sweep(ks, s) ==
    [a \in 1..MaxStruct |->
        IF s[a].s = "freed" /\ ~\E k \in Slots : ks[k].dsa = a \/ ks[k].rsa = a
        THEN UnallocCell ELSE s[a]]

Idle == [op |-> "idle"]

Init ==
    /\ keys = [k \in Slots |-> NoKey]
    /\ st = [a \in 1..MaxStruct |-> UnallocCell]
    /\ bn = [a \in 1..MaxBN |-> -1]
    /\ last = Idle
    /\ ub = FALSE

\* ---------------------------------------------------- caller-side handles
\* ssh_key_new followed by the caller's setting of type and flags
NewKey ==
    /\ ~ub /\ last = Idle
    /\ FreeSlots(keys) # {}
    /\ \E t \in KeyTypes :
         LET k == MinOf(FreeSlots(keys)) IN
         /\ keys' = [keys EXCEPT ![k] = [type |-> t, type_c |-> TypeC(t),
                                         flags |-> {"PUBLIC"}, dsa |-> NULL, rsa |-> NULL]]
         /\ last' = [op |-> "new", key |-> k]
    /\ UNCHANGED <<st, bn, ub>>

\* ssh_key_free: ssh_key_clean releases key->dsa and key->rsa, then the handle
ReleaseKey ==
    /\ ~ub /\ last = Idle
    /\ \E k \in Slots :
         /\ keys[k] # NoKey
         /\ LET d == keys[k].dsa
                r == keys[k].rsa
                b1 == StructFreeBN(bn, st, d)
                s1 == StructFreeSt(st, d)
                b2 == StructFreeBN(b1, s1, r)
                s2 == StructFreeSt(s1, r)
                ks == [keys EXCEPT ![k] = NoKey]
            IN /\ keys' = ks
               /\ bn' = b2
               /\ st' = Sweep(ks, s2)
               /\ ub' = (IsDoubleFree(st, d) \/ IsDoubleFree(st, r))
               /\ last' = [op |-> "free", key |-> k,
                           doubleFree |-> (IsDoubleFree(st, d) \/ IsDoubleFree(st, r))]

\* ------------------------------------------------------------ pki_key_dup
\* new->flags = key->flags
DupFlags(flags, demote) == flags

\* if (!demote && (key->flags & SSH_KEY_FLAG_PRIVATE))
DupCopiesPrivate(flags, demote) == ~demote /\ "PRIVATE" \in flags

\* the bignum copies the function attempts, in source order
DupCopyList(type, flags, srcF, demote) ==
    IF type = "DSS"
    THEN <<"p", "q", "g", "pub_key">> \o
         (IF DupCopiesPrivate(flags, demote) THEN <<"priv_key">> ELSE <<>>)
    ELSE <<"n", "e">> \o
         (IF DupCopiesPrivate(flags, demote)
          THEN <<"d">> \o SelectSeq(<<"p", "q", "dmp1", "dmq1", "iqmp">>,
                                    LAMBDA x : srcF[x] # NULL)
          ELSE <<>>)

\* a shallow copy: the new field points at the source's bignum
BnDupAlias(src, a, f) == src
\* BN_dup: the address of the copy, a cell of its own
BnDupAddr(src, a, f) == BnCell(a, f)

\* the sequence of BN_dup calls; fail = i makes the i-th allocation fail, and
\* BN_dup of an absent bignum returns NULL as well
RECURSIVE CopyFields(_, _, _, _, _, _)
CopyFields(b, srcF, dstF, new, cl, fail) ==
    IF cl = <<>> THEN [ok |-> TRUE, bn |-> b, f |-> dstF]
    ELSE LET fld == Head(cl) IN
         IF fail = 1 \/ srcF[fld] = NULL
         THEN [ok |-> FALSE, bn |-> b, f |-> dstF]
         ELSE LET a == BnDupAddr(srcF[fld], new, fld) IN
              CopyFields([b EXCEPT ![a] = b[srcF[fld]]], srcF,
                         [dstF EXCEPT ![fld] = a], new, Tail(cl), fail - 1)

\* fail: returns without releasing what was built
DupFailLeak(b, s, a) == [bn |-> b, st |-> s]
\* fail: ssh_key_free(new); return NULL;
DupFailCleanup(b, s, a) == [bn |-> StructFreeBN(b, s, a), st |-> StructFreeSt(s, a)]

\* fail: 0 none, 1 ssh_key_new, 2 DSA_new / RSA_new, 2 + i the i-th BN_dup;
\* a: the address DSA_new / RSA_new returns
pki_key_dup(s, b, key, demote, fail, a) ==
    IF fail = 1 THEN [ret |-> NoKey, st |-> s, bn |-> b]
    ELSE IF key.type \in {"ECDSA", "UNKNOWN"} THEN [ret |-> NoKey, st |-> s, bn |-> b]
    ELSE IF fail = 2
    THEN LET c == DupFailCleanup(b, s, NULL) IN [ret |-> NoKey, st |-> c.st, bn |-> c.bn]
    ELSE LET srcF == s[Payload(key)].f
             cp == CopyFields(b, srcF, NoFields, a,
                              DupCopyList(key.type, key.flags, srcF, demote), fail - 2)
             s1 == [s EXCEPT ![a] = [s |-> "live", f |-> cp.f]]
             new == [type |-> key.type, type_c |-> key.type_c,
                     flags |-> DupFlags(key.flags, demote),
                     dsa |-> IF key.type = "DSS" THEN a ELSE NULL,
                     rsa |-> IF key.type = "DSS" THEN NULL ELSE a]
         IN IF cp.ok THEN [ret |-> new, st |-> s1, bn |-> cp.bn]
            ELSE LET c == DupFailCleanup(cp.bn, s1, a) IN
                 [ret |-> NoKey, st |-> c.st, bn |-> c.bn]

\* the calls of the function that can fail, for the given key
DupSteps(key, srcF, demote) ==
    IF key.type \in {"ECDSA", "UNKNOWN"} THEN 1
    ELSE 2 + Len(DupCopyList(key.type, key.flags, srcF, demote))

KeyDup ==
    /\ ~ub /\ last = Idle
    /\ FreeSlots(keys) # {}
    /\ \E src \in Slots, demote \in BOOLEAN :
         /\ UsableKey(keys, st, src)
         /\ \E fail \in 0..DupSteps(keys[src],
                                   IF Payload(keys[src]) = NULL THEN NoFields
                                   ELSE st[Payload(keys[src])].f, demote) :
            \E dst \in {MinOf(FreeSlots(keys))} :
            \E r \in {pki_key_dup(st, bn, keys[src], demote, fail, StructCell(dst))} :
            LET ks == IF r.ret = NoKey THEN keys ELSE [keys EXCEPT ![dst] = r.ret]
            IN /\ keys' = ks
               /\ bn' = r.bn
               /\ st' = Sweep(ks, r.st)
               /\ last' = [op |-> "dup", src |-> src, demote |-> demote, fail |-> fail,
                           ret |-> IF r.ret = NoKey THEN NULL ELSE dst]
    /\ UNCHANGED ub

\* ------------------------------------------- pki_pubkey_build_dss / _rsa
SSH_OK == 0
SSH_ERROR == -1

\* BN_bin2bn on the string's bytes: the big-endian magnitude
RECURSIVE BytesToNat(_)
BytesToNat(s) == IF s = <<>> THEN 0
                 ELSE 256 * BytesToNat(SubSeq(s, 1, Len(s) - 1)) + s[Len(s)]

\* the protocol-supplied integer fields the builders are called with
DssInputs == {[p |-> <<23>>, q |-> <<11>>, g |-> <<4>>, pub_key |-> <<0, 200>>]}
RsaInputs == {[e |-> <<1, 0, 1>>, n |-> <<0, 143>>]}

\* make_string_bn for each field of `order` in turn; a field in `bad` converts
\* to NULL, every other one gets a fresh bignum
RECURSIVE ConvertFields(_, _, _, _, _, _)
ConvertFields(b, f, new, order, in, bad) ==
    IF order = <<>> THEN [bn |-> b, f |-> f]
    ELSE LET fld == Head(order) IN
         IF fld \in bad
         THEN ConvertFields(b, f, new, Tail(order), in, bad)
         ELSE ConvertFields([b EXCEPT ![BnCell(new, fld)] = BytesToNat(in[fld])],
                            [f EXCEPT ![fld] = BnCell(new, fld)], new, Tail(order), in, bad)

\* what the handle's pointer holds after DSA_free(key->dsa) / RSA_free(key->rsa)
\* on the failure path: the functions leave it as it was
BuildFailPointer(a) == a

\* the body shared by the two builders: `which` is "dsa" or "rsa", a the
\* address DSA_new / RSA_new returns
PubkeyBuild(s, b, key, which, order, in, structFail, bad, a) ==
    IF structFail
    THEN [rc |-> SSH_ERROR, key |-> key, st |-> s, bn |-> b, conv |-> FALSE]
    ELSE LET cv == ConvertFields(b, NoFields, a, order, in, bad)
             s1 == [s EXCEPT ![a] = [s |-> "live", f |-> cv.f]]
             k1 == IF which = "dsa" THEN [key EXCEPT !.dsa = a] ELSE [key EXCEPT !.rsa = a]
         IN IF \E i \in 1..Len(order) : cv.f[order[i]] = NULL
            THEN [rc |-> SSH_ERROR,
                  key |-> IF which = "dsa" THEN [key EXCEPT !.dsa = BuildFailPointer(a)]
                          ELSE [key EXCEPT !.rsa = BuildFailPointer(a)],
                  st |-> StructFreeSt(s1, a), bn |-> StructFreeBN(cv.bn, s1, a),
                  conv |-> TRUE]
            ELSE [rc |-> SSH_OK, key |-> k1, st |-> s1, bn |-> cv.bn, conv |-> FALSE]

pki_pubkey_build_dss(s, b, key, in, structFail, bad, a) ==
    PubkeyBuild(s, b, key, "dsa", <<"p", "q", "g", "pub_key">>, in, structFail, bad, a)

pki_pubkey_build_rsa(s, b, key, in, structFail, bad, a) ==
    PubkeyBuild(s, b, key, "rsa", <<"e", "n">>, in, structFail, bad, a)

\* the caller hands a fresh handle of the family, with no payload yet
BuildDss ==
    /\ ~ub /\ last = Idle
    /\ \E k \in Slots, in \in DssInputs, structFail \in BOOLEAN,
          bad \in SUBSET {"p", "q", "g", "pub_key"} :
         /\ keys[k] # NoKey /\ keys[k].type = "DSS" /\ keys[k].dsa = NULL
         /\ structFail => bad = {}
         /\ \E r \in {pki_pubkey_build_dss(st, bn, keys[k], in, structFail, bad, StructCell(k))} :
            LET ks == [keys EXCEPT ![k] = r.key]
            IN /\ keys' = ks
               /\ bn' = r.bn
               /\ st' = Sweep(ks, r.st)
               /\ last' = [op |-> "build_dss", key |-> k, rc |-> r.rc, conv |-> r.conv,
                           bad |-> bad]
    /\ UNCHANGED ub

BuildRsa ==
    /\ ~ub /\ last = Idle
    /\ \E k \in Slots, in \in RsaInputs, structFail \in BOOLEAN,
          bad \in SUBSET {"e", "n"} :
         /\ keys[k] # NoKey /\ keys[k].type \in {"RSA", "RSA1"} /\ keys[k].rsa = NULL
         /\ structFail => bad = {}
         /\ \E r \in {pki_pubkey_build_rsa(st, bn, keys[k], in, structFail, bad, StructCell(k))} :
            LET ks == [keys EXCEPT ![k] = r.key]
            IN /\ keys' = ks
               /\ bn' = r.bn
               /\ st' = Sweep(ks, r.st)
               /\ last' = [op |-> "build_rsa", key |-> k, rc |-> r.rc, conv |-> r.conv,
                           bad |-> bad]
    /\ UNCHANGED ub

\* ------------------------------------------------ pki_publickey_to_string
\* the magnitude of a bignum, most significant byte first (bignum_bn2bin)
RECURSIVE NatToBytes(_)
NatToBytes(n) == IF n = 0 THEN <<>> ELSE NatToBytes(n \div 256) \o <<n % 256>>

\* make_bignum_string: the magnitude, with one leading zero byte when its
\* top bit is set
make_bignum_string(n) ==
    LET m == NatToBytes(n) IN
    IF m # <<>> /\ m[1] >= 128 THEN <<0>> \o m ELSE m

\* ssh_string_from_char on the handle's type name
CStr(c) == CASE c = "ssh-dss" -> <<115, 115, 104, 45, 100, 115, 115>>
             [] c = "ssh-rsa" -> <<115, 115, 104, 45, 114, 115, 97>>
             [] c = "ssh-rsa1" -> <<115, 115, 104, 45, 114, 115, 97, 49>>
             [] c = "ssh-ecdsa" -> <<115, 115, 104, 45, 101, 99, 100, 115, 97>>
             [] OTHER -> <<>>

\* buffer_add_ssh_string: the 32-bit big-endian length, then the bytes
U32(n) == <<(n \div 16777216) % 256, (n \div 65536) % 256, (n \div 256) % 256, n % 256>>
SshString(bytes) == U32(Len(bytes)) \o bytes

EncTempNames == {"buffer", "type_s", "str", "e", "n", "p", "q", "g"}

Make(t, f) == [k |-> "make", t |-> t, f |-> f]   \* t = make_bignum_string(key->..->f)
Add(t) == [k |-> "add", t |-> t, f |-> ""]       \* buffer_add_ssh_string(buffer, t)
Free(t) == [k |-> "free", t |-> t, f |-> ""]     \* ssh_string_burn(t); ssh_string_free(t)
Goto == [k |-> "goto", t |-> "", f |-> ""]       \* goto fail

\* the statements of the switch, with the fields appended in another order
EncSwitchSwapped(type) ==
    CASE type = "DSS" ->
           <<Make("p", "p"), Make("q", "q"), Make("g", "g"), Make("n", "pub_key"),
             Add("q"), Add("p"), Add("g"), Add("n"),
             Free("p"), Free("g"), Free("q"), Free("n")>>
      [] type \in {"RSA", "RSA1"} ->
           <<Make("e", "e"), Make("n", "n"), Add("n"), Add("e"), Free("e"), Free("n")>>
      [] OTHER -> <<Goto>>
\* the statements of switch (key->type), in source order
EncSwitch(type) ==
    CASE type = "DSS" ->
           <<Make("p", "p"), Make("q", "q"), Make("g", "g"), Make("n", "pub_key"),
             Add("p"), Add("q"), Add("g"), Add("n"),
             Free("p"), Free("g"), Free("q"), Free("n")>>
      [] type \in {"RSA", "RSA1"} ->
           <<Make("e", "e"), Make("n", "n"), Add("e"), Add("n"), Free("e"), Free("n")>>
      [] OTHER -> <<Goto>>
\* str = ssh_string_new(...); ssh_string_fill(str, ...)
EncTail == <<[k |-> "new", t |-> "str", f |-> ""], [k |-> "fill", t |-> "str", f |-> ""]>>

\* the fail: label: the buffer is freed, and every temporary whose pointer is
\* not NULL is burned and freed; a pointer stays set after an earlier free
EncFailLabel(x) ==
    [x EXCEPT !.out = "failed",
              !.freed = [t \in EncTempNames |->
                           IF t = "buffer" \/ (t \in {"str", "e", "p", "g", "q", "n"} /\ x.made[t] = 1)
                           THEN x.freed[t] + 1 ELSE x.freed[t]]]

\* runs the statements; x.n counts down to the call that fails (0: none does)
RECURSIVE EncRun(_, _, _, _)
EncRun(x, prog, b, f) ==
    IF prog = <<>> \/ x.out = "failed" THEN x
    ELSE LET c == Head(prog) IN
         IF c.k = "goto" THEN EncFailLabel([x EXCEPT !.cause = "unsupported"])
         ELSE IF c.k = "free"
         THEN EncRun([x EXCEPT !.freed[c.t] = @ + 1], Tail(prog), b, f)
         ELSE IF x.n = 1
         THEN EncFailLabel([x EXCEPT !.cause = IF c.k = "make" THEN "field"
                                               ELSE IF c.k = "add" THEN "append"
                                               ELSE "result"])
         ELSE LET y == [x EXCEPT !.n = IF @ = 0 THEN 0 ELSE @ - 1] IN
              CASE c.k = "make" ->
                     EncRun([y EXCEPT !.made[c.t] = 1, !.read = @ \cup {c.f},
                                      !.val[c.t] = make_bignum_string(b[f[c.f]])],
                            Tail(prog), b, f)
                [] c.k = "add" ->
                     EncRun([y EXCEPT !.buf = @ \o SshString(x.val[c.t])], Tail(prog), b, f)
                [] c.k = "new" -> EncRun([y EXCEPT !.made["str"] = 1], Tail(prog), b, f)
                [] c.k = "fill" -> EncRun([y EXCEPT !.str = y.buf], Tail(prog), b, f)

\* fail: 0 none; 1 ssh_buffer_new; 2 ssh_string_from_char; 3 the append of
\* type_s; 3 + i the i-th call that can fail from the switch on.
\* made[t] / freed[t]: how often temporary t was allocated / burned and freed.
pki_publickey_to_string(s, b, key, fail) ==
    LET zero == [t \in EncTempNames |-> 0]
        x0 == [out |-> "run", cause |-> "none", n |-> IF fail > 3 THEN fail - 3 ELSE 0,
               made |-> [zero EXCEPT !["buffer"] = 1, !["type_s"] = 1],
               freed |-> [zero EXCEPT !["type_s"] = 1],
               val |-> [t \in EncTempNames |-> <<>>],
               buf |-> SshString(CStr(key.type_c)), str |-> <<>>, read |-> {}]
        fl == IF Payload(key) = NULL THEN NoFields ELSE s[Payload(key)].f
        x == EncRun(x0, EncSwitch(key.type) \o EncTail, b, fl)
    IN IF fail = 1
       THEN [ok |-> FALSE, blob |-> <<>>, read |-> {}, made |-> zero, freed |-> zero,
             cause |-> "setup"]
       ELSE IF fail = 2
       THEN [ok |-> FALSE, blob |-> <<>>, read |-> {}, cause |-> "setup",
             made |-> [zero EXCEPT !["buffer"] = 1], freed |-> [zero EXCEPT !["buffer"] = 1]]
       ELSE IF fail = 3
       THEN [ok |-> FALSE, blob |-> <<>>, read |-> {}, cause |-> "setup",
             made |-> x0.made, freed |-> [x0.freed EXCEPT !["buffer"] = 1]]
       ELSE IF x.out = "failed"
       THEN [ok |-> FALSE, blob |-> <<>>, read |-> x.read, cause |-> x.cause,
             made |-> x.made, freed |-> x.freed]
       ELSE \* ssh_buffer_free(buffer); return str;
            [ok |-> TRUE, blob |-> x.str, read |-> x.read, cause |-> "none",
             made |-> x.made, freed |-> [x.freed EXCEPT !["buffer"] = @ + 1]]

\* the calls of the function that can fail, for a key of the given type
EncSteps(type) ==
    3 + Cardinality({i \in 1..Len(EncSwitch(type) \o EncTail) :
                        (EncSwitch(type) \o EncTail)[i].k \in {"make", "add", "new", "fill"}})

PublickeyToString ==
    /\ ~ub /\ last = Idle
    /\ \E k \in Slots :
         /\ UsableKey(keys, st, k)
         /\ \E fail \in 0..(IF keys[k].type \in {"DSS", "RSA", "RSA1"}
                            THEN EncSteps(keys[k].type) ELSE 3) :
              \E r \in {pki_publickey_to_string(st, bn, keys[k], fail)} :
              LET twice == \E t \in EncTempNames : r.freed[t] > r.made[t]
              IN /\ ub' = twice
                 \* releasing freed memory again either aborts the process or
                 \* goes unnoticed, and then the function returns NULL
                 /\ \E ret \in (IF r.ok THEN {"STRING"}
                                ELSE IF twice THEN {"NULL", "ABORT"} ELSE {"NULL"}) :
                      last' = [op |-> "encode", key |-> k, fail |-> fail, ret |-> ret,
                               blob |-> r.blob, read |-> r.read, made |-> r.made,
                               freed |-> r.freed, cause |-> r.cause]
    /\ UNCHANGED <<keys, st, bn>>

\* --------------------------------------------------------------- pki_do_sign
\* whether the function hands the key to DSA_do_sign / RSA_do_sign
SignCallsPrimitive(key) == key.type \in {"DSS", "RSA", "RSA1"}

\* prim: what the external primitive does when called: "sig", "fail", "crash"
pki_do_sign(key, mallocFail, prim) ==
    IF mallocFail THEN [ret |-> "NULL", called |-> FALSE]
    ELSE IF SignCallsPrimitive(key)
    THEN [ret |-> IF prim = "sig" THEN "SIG" ELSE IF prim = "fail" THEN "NULL" ELSE "ABORT",
          called |-> TRUE]
    ELSE [ret |-> "NULL", called |-> FALSE]

DoSign ==
    /\ ~ub /\ last = Idle
    /\ \E k \in Slots, mallocFail \in BOOLEAN, prim \in {"sig", "fail", "crash"} :
         /\ UsableKey(keys, st, k)
         /\ LET key == keys[k]
                hasSecret == /\ key.type \in {"DSS", "RSA", "RSA1"}
                             /\ st[Payload(key)].f[IF key.type = "DSS" THEN "priv_key" ELSE "d"] # NULL
            IN \E r \in {pki_do_sign(key, mallocFail, prim)} :
               \* the primitive cannot sign without the private value: it
               \* reports an error or dereferences the absent bignum
               /\ prim = "sig" => hasSecret /\ r.called
               /\ prim = "crash" => ~hasSecret /\ r.called
               /\ ub' = (r.ret = "ABORT")
               /\ last' = [op |-> "sign", key |-> k, ret |-> r.ret, called |-> r.called,
                           sigtype |-> IF r.ret = "SIG" THEN key.type ELSE "NONE"]
    /\ UNCHANGED <<keys, st, bn>>

\* ------------------------------------------- pki_private_key_from_base64
\* strlen: the bytes before the first NUL
RECURSIVE Strlen(_)
Strlen(buf) == IF buf = <<>> \/ Head(buf) = 0 THEN 0 ELSE 1 + Strlen(Tail(buf))

\* pem_get_password: the provider is called when the session has one; its
\* result counts only when it returns 0
pem_get_password(bufNull, hasCb, provRc, provBuf) ==
    IF bufNull THEN [ret |-> 0, invoked |-> FALSE]
    ELSE IF hasCb
    THEN [ret |-> IF provRc = 0 THEN Strlen(provBuf) ELSE 0, invoked |-> TRUE]
    ELSE [ret |-> 0, invoked |-> FALSE]

\* the provider is asked whenever the session has one
PassphraseSourceCbFirst(passphrase, hasCb) ==
    IF hasCb THEN "callback" ELSE IF passphrase = "NULL" THEN "builtin" ELSE "direct"
\* which of the three PEM_read_bio_*PrivateKey calls is made
PassphraseSource(passphrase, hasCb) ==
    IF passphrase = "NULL"
    THEN IF hasCb THEN "callback" ELSE "builtin"
    ELSE "direct"

\* an unknown type is decoded as RSA
DecodeDispatchLax(type) ==
    CASE type = "DSS" -> "dss"
      [] type \in {"RSA", "RSA1", "UNKNOWN"} -> "rsa"
      [] OTHER -> "reject_switch"
\* the test on the classified type and the switch on it
DecodeDispatch(type) ==
    CASE type = "UNKNOWN" -> "reject_early"
      [] type = "DSS" -> "dss"
      [] type \in {"RSA", "RSA1"} -> "rsa"
      [] OTHER -> "reject_switch"

\* the keys the text blocks hold
DsaBlocks == {[p |-> 23, q |-> 11, g |-> 4, pub_key |-> 8, priv_key |-> 3]}
RsaBlocks == {[n |-> 143, e |-> 7, d |-> 103, p |-> 11, q |-> 13,
               dmp1 |-> 3, dmq1 |-> 7, iqmp |-> 6],
              [n |-> 143, e |-> 7, d |-> 103]}
GoodPass == "good"
GoodBytes == <<103>>
Passphrases == {"NULL", "good", "bad"}
ProviderBufs == {<<>>, <<103>>, <<98>>}

\* the structure PEM_read_bio_*PrivateKey allocates for a decoded block
RECURSIVE LoadFields(_, _, _, _, _)
LoadFields(b, f, new, order, blk) ==
    IF order = <<>> THEN [bn |-> b, f |-> f]
    ELSE IF Head(order) \notin DOMAIN blk THEN LoadFields(b, f, new, Tail(order), blk)
    ELSE LoadFields([b EXCEPT ![BnCell(new, Head(order))] = blk[Head(order)]],
                    [f EXCEPT ![Head(order)] = BnCell(new, Head(order))],
                    new, Tail(order), blk)

\* PEM_read_bio_*PrivateKey(mem, NULL, cb, u): for an encrypted block the
\* password comes from cb when one is given, else from u when it is not NULL,
\* else from the library's own prompt; an unencrypted block asks for none.
\* env: encrypted, corrupt, provRc, provBuf, promptGood
PemRead(source, passphrase, hasCb, env) ==
    LET cb == IF source = "callback" /\ env.encrypted
              THEN pem_get_password(FALSE, hasCb, env.provRc, env.provBuf)
              ELSE [ret |-> 0, invoked |-> FALSE]
        opened == \/ ~env.encrypted
                  \/ source = "direct" /\ passphrase = GoodPass
                  \/ source = "callback" /\ cb.ret > 0
                     /\ SubSeq(env.provBuf, 1, cb.ret) = GoodBytes
                  \/ source = "builtin" /\ env.promptGood
    IN [parsed |-> opened /\ ~env.corrupt,
        providerCalls |-> IF cb.invoked THEN 1 ELSE 0,
        cbCalled |-> source = "callback" /\ env.encrypted,
        cbRet |-> cb.ret,
        builtinUsed |-> source = "builtin" /\ env.encrypted]

NoDecode == [handed |-> "none", userdata |-> "NULL", backendCalls |-> 0,
             providerCalls |-> 0, cbCalled |-> FALSE, cbRet |-> 0, builtinUsed |-> FALSE]

pki_private_key_from_base64(s, b, initOk, type, passphrase, hasCb, blk, env, keyFail, a) ==
    IF ~initOk
    THEN [ret |-> NoKey, err |-> "none", st |-> s, bn |-> b, d |-> NoDecode]
    ELSE IF DecodeDispatch(type) = "reject_early"
    THEN [ret |-> NoKey, err |-> "Unknown or invalid private key.", st |-> s, bn |-> b,
          d |-> NoDecode]
    ELSE IF DecodeDispatch(type) = "reject_switch"
    THEN [ret |-> NoKey, err |-> "Unkown or invalid private key type", st |-> s, bn |-> b,
          d |-> NoDecode]
    ELSE LET source == PassphraseSource(passphrase, hasCb)
             pr == PemRead(source, passphrase, hasCb, env)
             dsaKind == DecodeDispatch(type) = "dss"
             order == IF dsaKind THEN <<"p", "q", "g", "pub_key", "priv_key">>
                      ELSE <<"n", "e", "d", "p", "q", "dmp1", "dmq1", "iqmp">>
             d == [handed |-> source,
                   userdata |-> IF source = "direct" THEN passphrase
                                ELSE IF source = "callback" THEN "session" ELSE "NULL",
                   backendCalls |-> 1, providerCalls |-> pr.providerCalls,
                   cbCalled |-> pr.cbCalled, cbRet |-> pr.cbRet, builtinUsed |-> pr.builtinUsed]
         IN IF ~pr.parsed
            THEN [ret |-> NoKey, err |-> "Parsing private key", st |-> s, bn |-> b, d |-> d]
            ELSE IF keyFail
            THEN \* fail: ssh_key_free(key); DSA_free(dsa); RSA_free(rsa);
                 [ret |-> NoKey, err |-> "none", st |-> s, bn |-> b, d |-> d]
            ELSE LET ld == LoadFields(b, NoFields, a, order, blk)
                 IN [ret |-> [type |-> type, type_c |-> TypeC(type),
                              flags |-> {"PRIVATE", "PUBLIC"},
                              dsa |-> IF dsaKind THEN a ELSE NULL,
                              rsa |-> IF dsaKind THEN NULL ELSE a],
                     err |-> "none",
                     st |-> [s EXCEPT ![a] = [s |-> "live", f |-> ld.f]],
                     bn |-> ld.bn, d |-> d]

\* the outcomes outside the function: the block, the provider, the prompt
DecodeEnvs(source, dispatched) ==
    IF ~dispatched
    THEN {[encrypted |-> FALSE, corrupt |-> FALSE, provRc |-> 0, provBuf |-> <<>>,
           promptGood |-> FALSE]}
    ELSE {[encrypted |-> FALSE, corrupt |-> c, provRc |-> 0, provBuf |-> <<>>,
           promptGood |-> FALSE] : c \in BOOLEAN}
         \cup {[encrypted |-> TRUE, corrupt |-> FALSE, provRc |-> rc, provBuf |-> pb,
                promptGood |-> pg] :
                  rc \in (IF source = "callback" THEN {0, -1} ELSE {0}),
                  pb \in (IF source = "callback" THEN ProviderBufs ELSE {<<>>}),
                  pg \in (IF source = "builtin" THEN BOOLEAN ELSE {FALSE})}

PrivateKeyFromBase64 ==
    /\ ~ub /\ last = Idle
    /\ FreeSlots(keys) # {}
    /\ \E initOk \in BOOLEAN, type \in KeyTypes, passphrase \in Passphrases,
          hasCb \in BOOLEAN, keyFail \in BOOLEAN :
       LET dispatched == initOk /\ DecodeDispatch(type) \in {"dss", "rsa"} IN
       \E env \in DecodeEnvs(PassphraseSource(passphrase, hasCb), dispatched),
          blk \in (IF DecodeDispatch(type) = "dss" THEN DsaBlocks ELSE RsaBlocks) :
         \E dst \in {MinOf(FreeSlots(keys))} :
         \E r \in {pki_private_key_from_base64(st, bn, initOk, type, passphrase, hasCb,
                                               blk, env, keyFail, StructCell(dst))} :
           LET ks == IF r.ret = NoKey THEN keys ELSE [keys EXCEPT ![dst] = r.ret]
           IN /\ keyFail => (r.ret = NoKey /\ r.err = "none" /\ r.d.backendCalls = 1)
              /\ keys' = ks
              /\ bn' = r.bn
              /\ st' = Sweep(ks, r.st)
              /\ last' = [op |-> "decode", initOk |-> initOk, type |-> type,
                          \* the result of pki_privatekey_type_from_string, once called
                          classified |-> IF initOk THEN type ELSE "NONE",
                          passphrase |-> passphrase, hasCb |-> hasCb,
                          provRc |-> env.provRc, provBuf |-> env.provBuf,
                          d |-> r.d, err |-> r.err,
                          ret |-> IF r.ret = NoKey THEN NULL ELSE dst]
    /\ UNCHANGED ub

\* the call returns and the caller takes its result
Return ==
    /\ ~ub /\ last # Idle
    /\ last' = Idle
    /\ UNCHANGED <<keys, st, bn, ub>>

Next ==
    \/ Return
    \/ NewKey
    \/ ReleaseKey
    \/ KeyDup
    \/ BuildDss
    \/ BuildRsa
    \/ PublickeyToString
    \/ DoSign
    \/ PrivateKeyFromBase64

Spec == Init /\ [][Next]_vars

\* ================================================================= claims
Supported == {"DSS", "RSA", "RSA1"}
KeyF(k) == st[Payload(keys[k])].f
\* the bignum cells a usable key of a supported family points at
KeyCells(k) == {KeyF(k)[f] : f \in FamilyFields(keys[k].type)} \ {NULL}

\* C1: a successful duplicate with demote returns a handle whose flags are
\* exactly PUBLIC and which holds none of the family's secret fields.
C1_DemotedFlagsArePublic ==
    (last.op = "dup" /\ last.demote /\ last.ret # NULL)
        => /\ keys[last.ret].flags = {"PUBLIC"}
           /\ \A f \in SecretFields(keys[last.ret].type) : KeyF(last.ret)[f] = NULL

\* C2: signing with a handle of a supported family whose flags lack PRIVATE
\* fails without the key being handed to the signature primitive.
C2_SignRejectsPublicOnly ==
    (last.op = "sign" /\ keys[last.key].type \in Supported
                      /\ "PRIVATE" \notin keys[last.key].flags)
        => (~last.called /\ last.ret = "NULL")

\* C3: a successful duplicate without demote has the source's family and flags,
\* the same value in every numeric field the source holds (and no field the
\* source lacks), each in a bignum of its own, shared with no field of the source.
C3_DupFidelity ==
    (last.op = "dup" /\ ~last.demote /\ last.ret # NULL)
        => LET k == keys[last.src]
               r == keys[last.ret]
           IN /\ r.type = k.type
              /\ r.type_c = k.type_c
              /\ r.flags = k.flags
              /\ Payload(r) # Payload(k)
              /\ \A f \in FamilyFields(k.type) :
                    /\ KeyF(last.src)[f] = NULL <=> KeyF(last.ret)[f] = NULL
                    /\ KeyF(last.src)[f] # NULL =>
                          /\ bn[KeyF(last.ret)[f]] = bn[KeyF(last.src)[f]]
                          /\ bn[KeyF(last.ret)[f]] # -1
              /\ KeyCells(last.src) \cap KeyCells(last.ret) = {}
              /\ Cardinality(KeyCells(last.ret)) = Cardinality(KeyCells(last.src))

C3_Witness ==
    /\ last.op = "dup" /\ ~last.demote /\ last.ret # NULL
    /\ keys[last.src].type = "RSA"
    /\ "PRIVATE" \in keys[last.src].flags
    /\ KeyF(last.src)["iqmp"] # NULL
    /\ KeyF(last.ret)["iqmp"] # NULL

\* C4: when the decoder calls the backend with a direct passphrase, that
\* passphrase is what the backend is handed and neither the provider nor the
\* built-in prompt is used; the provider is invoked only when no passphrase is
\* given and the session has a provider; the built-in prompt is used only when
\* both are absent.
C4_PassphrasePrecedence ==
    last.op = "decode" =>
        /\ (last.passphrase # "NULL" /\ last.d.backendCalls > 0)
              => /\ last.d.handed = "direct"
                 /\ last.d.userdata = last.passphrase
                 /\ last.d.providerCalls = 0
                 /\ ~last.d.cbCalled
                 /\ ~last.d.builtinUsed
        /\ last.d.providerCalls > 0 => (last.passphrase = "NULL" /\ last.hasCb)
        /\ last.d.handed = "callback" => (last.passphrase = "NULL" /\ last.hasCb)
        /\ (last.d.builtinUsed \/ last.d.handed = "builtin")
              => (last.passphrase = "NULL" /\ ~last.hasCb)

C4_Witness ==
    /\ last.op = "decode"
    /\ last.passphrase # "NULL" /\ last.hasCb
    /\ last.d.backendCalls = 1 /\ last.d.userdata = last.passphrase
    /\ last.ret # NULL

\* what a decode call did towards decrypting the block
NoDecryptionAttempt ==
    /\ last.d.handed = "none"
    /\ last.d.backendCalls = 0
    /\ last.d.providerCalls = 0
    /\ ~last.d.cbCalled
    /\ ~last.d.builtinUsed
    /\ last.ret = NULL

\* C5: decoding a block that is classified as unknown fails with the
\* unrecognized-key error before any decryption attempt: no passphrase, no
\* provider call, no built-in prompt, no backend call, and no handle returned.
C5_UnknownRejected ==
    (last.op = "decode" /\ last.classified = "UNKNOWN")
        => (last.err = "Unknown or invalid private key." /\ NoDecryptionAttempt)

C5_Witness ==
    /\ last.op = "decode" /\ last.classified = "UNKNOWN"
    /\ last.passphrase # "NULL" /\ last.hasCb
    /\ last.err = "Unknown or invalid private key."

\* C6: a provider rejection never makes the passphrase callback return the
\* value it returns for a successful provider call with a zero-length secret.
C6_RejectionDistinctFromEmpty ==
    (last.op = "decode" /\ last.d.providerCalls > 0 /\ last.provRc # 0)
        => last.d.cbRet # pem_get_password(FALSE, TRUE, 0, <<>>).ret

\* C7: a successful encoding is string(type name) followed by the
\* length-prefixed public fields, p, q, g, public value for DSA and public
\* exponent, modulus for RSA, made from no secret field; for an unsupported
\* family, a failed field encoding or a failed append nothing is returned.
C7_WireLayout ==
    last.op = "encode" =>
        LET key == keys[last.key]
            F(f) == SshString(make_bignum_string(bn[KeyF(last.key)[f]]))
        IN /\ last.ret = "STRING" =>
                /\ key.type \in Supported
                /\ key.type = "DSS" =>
                      /\ last.blob = SshString(CStr(key.type_c)) \o F("p") \o F("q")
                                        \o F("g") \o F("pub_key")
                      /\ last.read = {"p", "q", "g", "pub_key"}
                /\ key.type \in {"RSA", "RSA1"} =>
                      /\ last.blob = SshString(CStr(key.type_c)) \o F("e") \o F("n")
                      /\ last.read = {"e", "n"}
           /\ (key.type \notin Supported \/ last.cause \in {"unsupported", "field", "append"})
                => (last.ret = "NULL" /\ last.blob = <<>>)

C7_Witness ==
    /\ last.op = "encode" /\ last.ret = "STRING"
    /\ keys[last.key].type = "DSS"
    /\ "PRIVATE" \in keys[last.key].flags
    /\ KeyF(last.key)["priv_key"] # NULL

\* C8: after a builder has failed on a field conversion, the handle it was
\* given holds no reference to the structure the builder released.
C8_FailedBuildLeavesNoPayload ==
    (last.op \in {"build_dss", "build_rsa"} /\ last.rc = SSH_ERROR /\ last.conv)
        => (keys[last.key].dsa = NULL /\ keys[last.key].rsa = NULL)

\* C9: a duplicate that fails, at the structure allocation, at any field copy
\* or on an unsupported family, returns no handle and leaves the handles, the
\* structures and the bignums exactly as they were before the call.
C9_DupFailureAtomic ==
    [][(last'.op = "dup" /\ last'.ret = NULL)
          => (keys' = keys /\ st' = st /\ bn' = bn)]_vars

C9_Witness ==
    /\ last.op = "dup" /\ last.ret = NULL
    /\ keys[last.src].type = "RSA" /\ "PRIVATE" \in keys[last.src].flags
    /\ ~last.demote /\ last.fail = 6

\* C10: on every exit of the encoder each temporary field string and the work
\* buffer is released exactly as often as it was allocated.
C10_TemporariesReleasedOnce ==
    last.op = "encode" =>
        \A t \in {"e", "n", "p", "q", "g", "buffer"} : last.freed[t] = last.made[t]
====
